---- MODULE Spec2Model ----
(***************************************************************************)
(* Model of sdk/src/runtime.rs: the generator harness that answers a       *)
(* host's line-delimited JSON-RPC requests (getManifest, generate) and     *)
(* writes the generated file.                                              *)
(*                                                                         *)
(* One generator process is a sequential program; pc is its position in    *)
(* run_generator / generate / create_generated_file.  The host writes      *)
(* request lines into the process's standard input pipe concurrently.      *)
(* The filesystem (dirs, files) outlives a process, so that a second       *)
(* process can be spawned on the tree the first one left.                  *)
(***************************************************************************)
EXTENDS Naturals, Sequences, FiniteSets, TLC

(***************************************************************************)
(* Bounds of the model.                                                    *)
(***************************************************************************)
\* lines the host writes to one process
MaxLines == 2
\* generator processes spawned one after the other on the same filesystem
MaxRuns == 2

(***************************************************************************)
(* GeneratorMetadata: the identity a concrete generator passes in.         *)
(* generate_fn is modelled by the operator generate_fn below.              *)
(***************************************************************************)
GeneratorMetadata ==
    { [name |-> "demo", default_output |-> "./gen/demo.ts"],
      [name |-> "other", default_output |-> "./out.rs"] }

(***************************************************************************)
(* Paths are sequences of components, so that Path::parent is "drop the    *)
(* last component".  <<>> is the empty path "".                            *)
(***************************************************************************)
DeepPath == <<"gen", "sub", "out.rs">>
OutPaths == { <<>>, <<"gen">>, DeepPath }

\* Path::parent: None for the empty path, else the path without its last
\* component (Some("") for a single component).
HasParent(p) == Len(p) > 0
Parent(p) == SubSeq(p, 1, Len(p) - 1)
\* proper, non-empty prefixes of p
Ancestors(p) == { SubSeq(p, 1, k) : k \in 1..(Len(p) - 1) }

(***************************************************************************)
(* The wire.  A line is a well-formed request envelope, a line of text     *)
(* that is no envelope ("garbage"), or bytes that are not UTF-8            *)
(* ("binary").  params is opaque JSON: null, an object that lacks          *)
(* generator.output ("partial"), or a full EngineDMMF ("dmmf").            *)
(***************************************************************************)
Ids == {1, 2}
Datamodels == {"dm_ok", "dm_badnames", "dm_invalid"}

NullParams == [kind |-> "null", datamodel |-> "", output |-> <<>>, config |-> ""]
PartialParams == [kind |-> "partial", datamodel |-> "dm_ok", output |-> <<>>, config |-> "cfg"]
Dmmf(d, o) == [kind |-> "dmmf", datamodel |-> d, output |-> o, config |-> "cfg"]
\* manifests whose datamodel compiles and passes name validation, one per path
GoodDmmf == { Dmmf("dm_ok", o) : o \in OutPaths }
\* manifests a collaborator rejects
BadDmmf == { Dmmf(d, DeepPath) : d \in Datamodels \ {"dm_ok"} }
DmmfParams == GoodDmmf \cup BadDmmf

Envelope(m, i, p) == [form |-> "json", method |-> m, id |-> i, params |-> p]
Envelopes ==
    { Envelope("getManifest", i, p) : i \in Ids, p \in {NullParams, Dmmf("dm_ok", DeepPath)} }
    \cup { Envelope("generate", i, p) : i \in Ids, p \in GoodDmmf }
    \cup { Envelope("generate", 1, p) : p \in BadDmmf \cup {PartialParams} }
    \cup { Envelope("shutdown", 1, NullParams) }
GarbageLine == [form |-> "garbage", method |-> "", id |-> 0, params |-> NullParams]
BinaryLine == [form |-> "binary", method |-> "", id |-> 0, params |-> NullParams]
\* what read_line leaves in content at end of input: the empty string
EmptyContent == [form |-> "empty", method |-> "", id |-> 0, params |-> NullParams]
Lines == Envelopes \cup {GarbageLine, BinaryLine}

NoInput == [method |-> "", id |-> 0, params |-> NullParams]
NoDmmf == [datamodel |-> "", output |-> <<>>, config |-> ""]
NoArgs == [built |-> FALSE, datamodel |-> <<>>, schema |-> <<>>, raw |-> ""]
NoValue == [kind |-> "unset", defaultOutput |-> "", prettyName |-> ""]
NoFile == [open |-> FALSE, path |-> <<>>]

VARIABLES
    generator,      \* the GeneratorMetadata passed to run_generator
    args,           \* the argument list passed to run_generator
    envMarker,      \* PRISMA_GENERATOR_INVOCATION is set
    pc,             \* position of the process
    stdinPipe,      \* lines the host has written and the process has not read
    stdinOpen,      \* the host still holds the write end of the pipe
    sent,           \* every line the host wrote to this process, in order
    lost,           \* lines swallowed by a dropped BufReader
    decoded,        \* every request the process decoded, in order
    content,        \* the String read_line filled
    input,          \* the decoded jsonrpc::Request
    value,          \* the result computed by the match
    dmmf,           \* the decoded EngineDMMF
    file,           \* the File create_generated_file returned
    genArgs,        \* the GenerateArgs
    generated_str,  \* the text generate_fn returned
    written,        \* bytes this process wrote through file
    stdout,         \* what the process wrote to standard output
    stderr,         \* what the process wrote to standard error
    exitCode,       \* exit status of the process, "running" until it ends
    dirs,           \* filesystem: the directories that exist
    files,          \* filesystem: path -> content of the regular files
    events,         \* the calls this process made, in order
    run,            \* number of the current process
    prev            \* the tree this process started on, and what the one before it did

hostVars == <<stdinPipe, stdinOpen, sent>>
fsVars == <<dirs, files>>
locals == <<content, input, value, dmmf, file, genArgs, generated_str, written>>
streams == <<stdout, stderr, exitCode>>
fixed == <<generator, args, envMarker>>
history == <<run, prev>>
consumed == <<lost, decoded>>
vars == <<generator, args, envMarker, pc, stdinPipe, stdinOpen, sent, lost, decoded,
          content, input, value, dmmf, file, genArgs, generated_str, written,
          stdout, stderr, exitCode, dirs, files, events, run, prev>>

(***************************************************************************)
(* Text written by the program.                                            *)
(***************************************************************************)
InstructionalMessage ==
    "This command is only meant to be invoked internally. Please specify a command to run."

\* format!("// Code generated by {}. DO NOT EDIT\n\n", generator.name)
Header(name) == <<"// Code generated by ", name, ". DO NOT EDIT\n\n">>

\* one panic: the runtime prints the message on standard error
PanicBytes(msg, err) == <<[kind |-> "diag", msg |-> msg, err |-> err], [kind |-> "nl"]>>

(***************************************************************************)
(* Collaborators, at their interface.                                      *)
(***************************************************************************)
\* serde_json::from_str::<jsonrpc::Request>: only a well-formed envelope decodes
DecodesRequest(line) == line.form = "json"
DecodeRequest(line) == [method |-> line.method, id |-> line.id, params |-> line.params]

\* serde_path_to_error::deserialize::<EngineDMMF>: every required field present
DecodesDmmf(params) == params.kind = "dmmf"
DecodeDmmf(params) ==
    [datamodel |-> params.datamodel, output |-> params.output, config |-> params.config]

\* datamodel::parse_schema: Ok((configuration, datamodel)) or Err
parse_schema(raw) == raw # "dm_invalid"

\* utils::build_schema: the derived schema of a compiled datamodel
build_schema(raw) == <<"schema of", raw>>

\* GenerateArgs::new(datamodel, schema, dmmf.datamodel, dmmf.datasources)
NewGenerateArgs(raw) ==
    [built |-> TRUE, datamodel |-> <<"compiled", raw>>, schema |-> build_schema(raw), raw |-> raw]

\* utils::validate_names: returns, or panics on a name it rejects
validate_names(a) == a.raw # "dm_badnames"

\* (generator.generate_fn)(args, dmmf.generator.config): the emitted text
generate_fn(a, cfg) == <<"unformatted code of", a.raw, cfg>>

\* utils::rustfmt rewrites the file in place
FormatToken(t) == IF t = "unformatted code of" THEN "formatted code of" ELSE t
FormatText(s) == [i \in DOMAIN s |-> FormatToken(s[i])]

\* as ManifestValue, with the two fields of the identity taken for each other
ManifestValueSwapped(g) ==
    [kind |-> "manifest", defaultOutput |-> g.name, prettyName |-> g.default_output]

\* serde_json::to_value(jsonrpc::ManifestResponse { manifest: Manifest {..} })
ManifestValue(g) ==
    [kind |-> "manifest", defaultOutput |-> g.default_output, prettyName |-> g.name]
\* serde_json::Value::Null
NullValue == [kind |-> "null", defaultOutput |-> "", prettyName |-> ""]

\* as Response, with the id of the first exchange in every reply
ResponseFirstId(in, v) == [jsonrpc |-> "2.0", id |-> 1, result |-> v]

\* jsonrpc::Response { jsonrpc: "2.0", id: input.id, result: value }
Response(in, v) == [jsonrpc |-> "2.0", id |-> in.id, result |-> v]
\* serde_json::to_vec(&response) followed by bytes.push(b'\n')
ReplyBytes(in, v) == <<[kind |-> "json", doc |-> Response(in, v)], [kind |-> "nl"]>>

(***************************************************************************)
(* The filesystem calls.                                                   *)
(***************************************************************************)
Exists(p, ds, fl) == p \in ds \/ p \in DOMAIN fl
AncestorIsFile(p, fl) == \E a \in Ancestors(p) : a \in DOMAIN fl

\* mkdir(2) of one directory
Mkdir(d, ds, fl) ==
    IF d = <<>> THEN "NotFound"
    ELSE IF Exists(d, ds, fl) THEN "AlreadyExists"
    ELSE IF AncestorIsFile(d, fl) THEN "NotADirectory"
    ELSE IF Len(d) > 1 /\ Parent(d) \notin ds THEN "NotFound"
    ELSE "Ok"

\* as CreateDirAll, without the is_dir test: a directory that is there is an error
RECURSIVE CreateDirAllStrict(_, _, _)
CreateDirAllStrict(d, ds, fl) ==
    IF d = <<>> THEN [err |-> "Ok", dirs |-> ds]
    ELSE LET first == Mkdir(d, ds, fl) IN
         IF first = "Ok" THEN [err |-> "Ok", dirs |-> ds \cup {d}]
         ELSE IF first = "NotFound"
              THEN LET up == CreateDirAllStrict(Parent(d), ds, fl) IN
                   IF up.err # "Ok" THEN up
                   ELSE [err |-> Mkdir(d, up.dirs, fl),
                         dirs |-> IF Mkdir(d, up.dirs, fl) = "Ok" THEN up.dirs \cup {d}
                                  ELSE up.dirs]
         ELSE [err |-> first, dirs |-> ds]

\* fs::create_dir_all(d): [err, dirs], the result and the directories after it
RECURSIVE CreateDirAll(_, _, _)
CreateDirAll(d, ds, fl) ==
    IF d = <<>> THEN [err |-> "Ok", dirs |-> ds]
    ELSE LET first == Mkdir(d, ds, fl) IN
         IF first = "Ok" THEN [err |-> "Ok", dirs |-> ds \cup {d}]
         ELSE IF first = "NotFound"
              THEN LET up == CreateDirAll(Parent(d), ds, fl) IN
                   IF up.err # "Ok" THEN up
                   ELSE LET second == Mkdir(d, up.dirs, fl) IN
                        IF second = "Ok" \/ d \in up.dirs
                        THEN [err |-> "Ok", dirs |-> up.dirs \cup {d}]
                        ELSE [err |-> second, dirs |-> up.dirs]
         ELSE IF d \in ds THEN [err |-> "Ok", dirs |-> ds]
         ELSE [err |-> first, dirs |-> ds]

\* as FileCreate, opened without O_TRUNC: an existing file keeps its content
FileCreateNoTruncate(p, fl) == IF p \in DOMAIN fl THEN fl ELSE (p :> <<>>) @@ fl

\* File::create(path): open(2) with O_WRONLY | O_CREAT | O_TRUNC
OpenError(p, ds, fl) ==
    IF p = <<>> THEN "NotFound"
    ELSE IF p \in ds THEN "IsADirectory"
    ELSE IF AncestorIsFile(p, fl) THEN "NotADirectory"
    ELSE IF Len(p) > 1 /\ Parent(p) \notin ds THEN "NotFound"
    ELSE "Ok"
FileCreate(p, fl) == (p :> <<>>) @@ fl

\* file.write(bytes) through a handle at offset off: the bytes replace what the
\* file holds from off on, and a longer file keeps its tail
FileWrite(p, off, bytes, fl) ==
    [fl EXCEPT ![p] = SubSeq(@, 1, off) \o bytes \o SubSeq(@, off + Len(bytes) + 1, Len(@))]

(***************************************************************************)
(* Control flow of run_generator.                                          *)
(***************************************************************************)
\* as Route, with a catch-all arm that answers like getManifest
RouteCatchAll(method) == IF method = "generate" THEN "generate" ELSE "manifest"

\* the match on input.method
Route(method) ==
    IF method = "getManifest" THEN "manifest"
    ELSE IF method = "generate" THEN "generate"
    ELSE "unknown"

\* as AfterReply, without the break
AfterReplyNoBreak(method) == "awaiting"

\* if input.method.as_str() == "generate" { break; }
AfterReply(method) == IF method = "generate" THEN "terminated" ELSE "awaiting"

\* as MarkerAbsent, with the test the wrong way round
MarkerAbsentInverted(env) == env

\* std::env::var("PRISMA_GENERATOR_INVOCATION") is Err(_)
MarkerAbsent(env) == ~env

Ended == {"returned", "exited", "panicked", "terminated"}

\* a panic: the message goes to standard error, the process ends with status 101
Panic(msg, err) ==
    /\ pc' = "panicked"
    /\ stderr' = stderr \o PanicBytes(msg, err)
    /\ exitCode' = "101"
    /\ UNCHANGED stdout

Call(name) == events' = Append(events, name)

\* the trees a process may find: nothing, or an earlier tree with a file at
\* DeepPath and one beside it
OtherFile == <<"gen", "sub", "mod.rs">>
StaleText == <<"stale 1", "stale 2", "stale 3", "stale 4", "stale 5", "stale 6", "stale 7">>
InitialTrees ==
    { [dirs |-> {}, files |-> <<>>],
      [dirs |-> {<<"gen">>, <<"gen", "sub">>},
       files |-> (DeepPath :> StaleText) @@ (OtherFile :> <<"hand written">>)] }

Init ==
    /\ generator \in GeneratorMetadata
    /\ args \in {<<>>, <<"generate">>}
    /\ envMarker \in BOOLEAN
    /\ pc = "start"
    /\ stdinPipe = <<>>
    /\ stdinOpen = TRUE
    /\ sent = <<>>
    /\ lost = <<>>
    /\ decoded = <<>>
    /\ content = EmptyContent
    /\ input = NoInput
    /\ value = NoValue
    /\ dmmf = NoDmmf
    /\ file = NoFile
    /\ genArgs = NoArgs
    /\ generated_str = <<>>
    /\ written = <<>>
    /\ stdout = <<>>
    /\ stderr = <<>>
    /\ exitCode = "running"
    /\ \E fs \in InitialTrees : dirs = fs.dirs /\ files = fs.files
    /\ events = <<>>
    /\ run = 1
    /\ prev = [status |-> "none", dmmf |-> NoDmmf, dirs |-> dirs, files |-> files,
                written |-> <<>>]

(***************************************************************************)
(* The host.                                                               *)
(***************************************************************************)
\* The process looks at the pipe in ReadLine alone, so a line written during
\* any other step is a line written before the next read: the host's steps are
\* taken where the process is about to read.
HostTurn == pc \in {"start", "awaiting"}

HostWriteFrom(alphabet) ==
    /\ HostTurn
    /\ stdinOpen
    /\ Len(sent) < MaxLines
    /\ \E l \in alphabet :
        /\ stdinPipe' = Append(stdinPipe, l)
        /\ sent' = Append(sent, l)
    /\ UNCHANGED <<pc, stdinOpen, consumed, locals, streams, fsVars, events, fixed, history>>

HostWrite == HostWriteFrom(Lines)

HostClose ==
    /\ HostTurn
    /\ stdinOpen
    /\ stdinOpen' = FALSE
    /\ UNCHANGED <<pc, stdinPipe, sent, consumed, locals, streams, fsVars, events, fixed, history>>

(***************************************************************************)
(* run_generator, lines 37-49: the invocation selector.                    *)
(***************************************************************************)
\* as SelectCli, without the return: control goes on into the loop
SelectCliFallThrough ==
    /\ pc = "start"
    /\ Len(args) > 0
    /\ pc' = "awaiting"
    /\ Call("prisma_cli::main")
    /\ UNCHANGED <<hostVars, consumed, locals, streams, fsVars, fixed, history>>

SelectCli ==
    /\ pc = "start"
    /\ Len(args) > 0
    /\ pc' = "returned"
    /\ Call("prisma_cli::main")
    /\ UNCHANGED <<hostVars, consumed, locals, streams, fsVars, fixed, history>>

SelectExit ==
    /\ pc = "start"
    /\ Len(args) = 0
    /\ MarkerAbsent(envMarker)
    /\ stdout' = stdout \o <<InstructionalMessage, "\n">>
    /\ exitCode' = "1"
    /\ pc' = "exited"
    /\ UNCHANGED <<hostVars, consumed, locals, stderr, fsVars, events, fixed, history>>

EnterLoop ==
    /\ pc = "start"
    /\ Len(args) = 0
    /\ ~MarkerAbsent(envMarker)
    /\ pc' = "awaiting"
    /\ UNCHANGED <<hostVars, consumed, locals, streams, fsVars, events, fixed, history>>

(***************************************************************************)
(* run_generator, lines 51-57: read one line and decode it.  The           *)
(* BufReader is created for this read alone: it takes from the pipe        *)
(* whatever one read returns (k lines), read_line hands out the first      *)
(* of them, and the rest goes when the BufReader is dropped.               *)
(***************************************************************************)
ReadLine ==
    /\ pc = "awaiting"
    /\ stdinPipe # <<>>
    /\ \E k \in 1..Len(stdinPipe) :
        /\ stdinPipe' = SubSeq(stdinPipe, k + 1, Len(stdinPipe))
        /\ lost' = lost \o SubSeq(stdinPipe, 2, k)
    /\ Call("read_line")
    /\ \/ /\ stdinPipe[1].form # "binary"
          /\ content' = stdinPipe[1]
          /\ pc' = "decode"
          /\ UNCHANGED streams
       \/ /\ stdinPipe[1].form = "binary"
          /\ Panic("Failed to read Prisma engine output", "InvalidData")
          /\ UNCHANGED content
    /\ UNCHANGED <<stdinOpen, sent, decoded, input, value, dmmf, file, genArgs,
                   generated_str, written, fsVars, fixed, history>>

ReadEof ==
    /\ pc = "awaiting"
    /\ stdinPipe = <<>>
    /\ ~stdinOpen
    /\ content' = EmptyContent
    /\ pc' = "decode"
    /\ Call("read_line")
    /\ UNCHANGED <<hostVars, consumed, input, value, dmmf, file, genArgs, generated_str,
                   written, streams, fsVars, fixed, history>>

\* as Decode, with a line that does not decode skipped and the read made again
DecodeRetry ==
    /\ pc = "decode"
    /\ \/ /\ DecodesRequest(content)
          /\ input' = DecodeRequest(content)
          /\ decoded' = Append(decoded, input')
          /\ pc' = "dispatch"
       \/ /\ ~DecodesRequest(content)
          /\ pc' = "awaiting"
          /\ UNCHANGED <<input, decoded>>
    /\ UNCHANGED streams
    /\ UNCHANGED <<hostVars, lost, content, value, dmmf, file, genArgs, generated_str,
                   written, fsVars, events, fixed, history>>

Decode ==
    /\ pc = "decode"
    /\ \/ /\ DecodesRequest(content)
          /\ input' = DecodeRequest(content)
          /\ decoded' = Append(decoded, input')
          /\ pc' = "dispatch"
          /\ UNCHANGED streams
       \/ /\ ~DecodesRequest(content)
          /\ Panic("called Result::unwrap() on an Err value", "serde_json::Error")
          /\ UNCHANGED <<input, decoded>>
    /\ UNCHANGED <<hostVars, lost, content, value, dmmf, file, genArgs, generated_str,
                   written, fsVars, events, fixed, history>>

(***************************************************************************)
(* run_generator, lines 59-81: the match on the method.                    *)
(***************************************************************************)
\* as GetManifest, with the directory of the default output made on the way
GetManifestMakesOutputDir ==
    /\ pc = "dispatch"
    /\ Route(input.method) = "manifest"
    /\ value' = ManifestValue(generator)
    /\ dirs' = dirs \cup {<<"gen">>}
    /\ pc' = "reply"
    /\ UNCHANGED <<hostVars, consumed, content, input, dmmf, file, genArgs, generated_str,
                   written, streams, files, events, fixed, history>>

GetManifest ==
    /\ pc = "dispatch"
    /\ Route(input.method) = "manifest"
    /\ value' = ManifestValue(generator)
    /\ pc' = "reply"
    /\ UNCHANGED <<hostVars, consumed, content, input, dmmf, file, genArgs, generated_str,
                   written, streams, fsVars, events, fixed, history>>

\* as DeserializeDmmf, with a default manifest taken when the params do not decode
DeserializeDmmfOrDefault ==
    /\ pc = "dispatch"
    /\ Route(input.method) = "generate"
    /\ dmmf' = DecodeDmmf(input.params)
    /\ pc' = "parse_schema"
    /\ UNCHANGED streams
    /\ UNCHANGED <<hostVars, consumed, content, input, value, file, genArgs, generated_str,
                   written, fsVars, events, fixed, history>>

DeserializeDmmf ==
    /\ pc = "dispatch"
    /\ Route(input.method) = "generate"
    /\ \/ /\ DecodesDmmf(input.params)
          /\ dmmf' = DecodeDmmf(input.params)
          /\ pc' = "parse_schema"
          /\ UNCHANGED streams
       \/ /\ ~DecodesDmmf(input.params)
          /\ Panic("Failed to deserialize DMMF from Prisma engines", "serde_path_to_error::Error")
          /\ UNCHANGED dmmf
    /\ UNCHANGED <<hostVars, consumed, content, input, value, file, genArgs, generated_str,
                   written, fsVars, events, fixed, history>>

UnknownMethod ==
    /\ pc = "dispatch"
    /\ Route(input.method) = "unknown"
    /\ Panic("Unknown generator method", input.method)
    /\ UNCHANGED <<hostVars, consumed, locals, fsVars, events, fixed, history>>

(***************************************************************************)
(* generate, lines 105-128, and create_generated_file, lines 130-136.      *)
(***************************************************************************)
\* as ParseSchema, with the outcome of the compilation looked at only later
ParseSchemaUnchecked ==
    /\ pc = "parse_schema"
    /\ events' = events \o <<"parse_schema", "build_schema">>
    /\ pc' = "create_dir_all"
    /\ UNCHANGED streams
    /\ UNCHANGED <<hostVars, consumed, locals, fsVars, fixed, history>>

ParseSchema ==
    /\ pc = "parse_schema"
    /\ \/ /\ parse_schema(dmmf.datamodel)
          /\ events' = events \o <<"parse_schema", "build_schema">>
          /\ pc' = "create_dir_all"
          /\ UNCHANGED streams
       \/ /\ ~parse_schema(dmmf.datamodel)
          /\ Call("parse_schema")
          /\ Panic("Failed to parse datamodel", "Diagnostics")
    /\ UNCHANGED <<hostVars, consumed, locals, fsVars, fixed, history>>

\* the directories a failed create_dir_all may have made before it failed
PartialDirs(d, ds) ==
    { ds \cup { SubSeq(d, 1, k) : k \in 1..n } : n \in 0..(Len(d) - 1) }

CreateParentDirs ==
    /\ pc = "create_dir_all"
    /\ \/ /\ ~HasParent(dmmf.output)
          /\ pc' = "file_create"
          /\ UNCHANGED <<dirs, streams, events>>
       \/ /\ HasParent(dmmf.output)
          /\ Call("create_dir_all")
          /\ LET made == CreateDirAll(Parent(dmmf.output), dirs, files) IN
             \/ /\ made.err = "Ok"
                /\ dirs' = made.dirs
                /\ pc' = "file_create"
                /\ UNCHANGED streams
             \/ /\ made.err # "Ok"
                /\ dirs' = made.dirs
                /\ Panic("Failed to create output directory", made.err)
             \/ \* the operating system refuses a mkdir (permissions, full disk)
                /\ made.err = "Ok"
                /\ made.dirs # dirs
                /\ dirs' \in PartialDirs(Parent(dmmf.output), dirs)
                /\ Panic("Failed to create output directory", "PermissionDenied")
    /\ UNCHANGED <<hostVars, consumed, locals, files, fixed, history>>

CreateFile ==
    /\ pc = "file_create"
    /\ Call("File::create")
    /\ \/ /\ OpenError(dmmf.output, dirs, files) = "Ok"
          /\ files' = FileCreate(dmmf.output, files)
          /\ file' = [open |-> TRUE, path |-> dmmf.output]
          /\ pc' = "validate_names"
          /\ UNCHANGED streams
       \/ /\ OpenError(dmmf.output, dirs, files) # "Ok"
          /\ Panic("Failed to open output file", OpenError(dmmf.output, dirs, files))
          /\ UNCHANGED <<files, file>>
       \/ \* the operating system refuses the open
          /\ OpenError(dmmf.output, dirs, files) = "Ok"
          /\ Panic("Failed to open output file", "PermissionDenied")
          /\ UNCHANGED <<files, file>>
    /\ UNCHANGED <<hostVars, consumed, content, input, value, dmmf, genArgs, generated_str,
                   written, dirs, fixed, history>>

\* as ValidateNames, with the outcome of the validation dropped
ValidateNamesIgnored ==
    /\ pc = "validate_names"
    /\ genArgs' = NewGenerateArgs(dmmf.datamodel)
    /\ events' = events \o <<"GenerateArgs::new", "validate_names">>
    /\ pc' = "emit"
    /\ UNCHANGED streams
    /\ UNCHANGED <<hostVars, consumed, content, input, value, dmmf, file, generated_str,
                   written, fsVars, fixed, history>>

ValidateNames ==
    /\ pc = "validate_names"
    /\ genArgs' = NewGenerateArgs(dmmf.datamodel)
    /\ events' = events \o <<"GenerateArgs::new", "validate_names">>
    /\ \/ /\ validate_names(genArgs')
          /\ pc' = "emit"
          /\ UNCHANGED streams
       \/ /\ ~validate_names(genArgs')
          /\ Panic("validate_names", "")
    /\ UNCHANGED <<hostVars, consumed, content, input, value, dmmf, file, generated_str,
                   written, fsVars, fixed, history>>

Emit ==
    /\ pc = "emit"
    /\ Call("generate_fn")
    /\ \/ /\ generated_str' = generate_fn(genArgs, dmmf.config)
          /\ pc' = "write_header"
          /\ UNCHANGED streams
       \/ \* the injected function panics
          /\ Panic("generate_fn", "")
          /\ UNCHANGED generated_str
    /\ UNCHANGED <<hostVars, consumed, content, input, value, dmmf, file, genArgs,
                   written, fsVars, fixed, history>>

WriteHeader ==
    /\ pc = "write_header"
    /\ \/ /\ files' = FileWrite(file.path, Len(written), Header(generator.name), files)
          /\ written' = written \o Header(generator.name)
          /\ Call("write header")
          /\ pc' = "write_body"
          /\ UNCHANGED streams
       \/ /\ Panic("Failed to write file header", "StorageFull")
          /\ UNCHANGED <<files, written, events>>
    /\ UNCHANGED <<hostVars, consumed, content, input, value, dmmf, file, genArgs,
                   generated_str, dirs, fixed, history>>

\* as WriteBody, with generate returning right after the write: no formatter call
WriteBodySkipFormat ==
    /\ pc = "write_body"
    /\ \/ /\ files' = FileWrite(file.path, Len(written), generated_str, files)
          /\ written' = written \o generated_str
          /\ Call("write body")
          /\ value' = NullValue
          /\ pc' = "reply"
          /\ UNCHANGED streams
       \/ /\ Panic("Failed to write generated code", "StorageFull")
          /\ UNCHANGED <<files, written, events, value>>
    /\ UNCHANGED <<hostVars, consumed, content, input, dmmf, file, genArgs,
                   generated_str, dirs, fixed, history>>

WriteBody ==
    /\ pc = "write_body"
    /\ \/ /\ files' = FileWrite(file.path, Len(written), generated_str, files)
          /\ written' = written \o generated_str
          /\ Call("write body")
          /\ pc' = "rustfmt"
          /\ UNCHANGED streams
       \/ /\ Panic("Failed to write generated code", "StorageFull")
          /\ UNCHANGED <<files, written, events>>
    /\ UNCHANGED <<hostVars, consumed, content, input, value, dmmf, file, genArgs,
                   generated_str, dirs, fixed, history>>

\* rustfmt(output_path), then generate returns and the arm yields Value::Null
Rustfmt ==
    /\ pc = "rustfmt"
    /\ \/ /\ files' = [files EXCEPT ![dmmf.output] = FormatText(@)]
          /\ Call("rustfmt ok")
       \/ /\ UNCHANGED files
          /\ Call("rustfmt failed")
    /\ value' = NullValue
    /\ pc' = "reply"
    /\ UNCHANGED <<hostVars, consumed, content, input, dmmf, file, genArgs, generated_str,
                   written, streams, dirs, fixed, history>>

(***************************************************************************)
(* run_generator, lines 83-101: the reply and the end of the iteration.    *)
(***************************************************************************)
\* as WriteReply, with the reply printed on standard output
WriteReplyToStdout ==
    /\ pc = "reply"
    /\ stdout' = stdout \o ReplyBytes(input, value)
    /\ Call("reply")
    /\ pc' = AfterReply(input.method)
    /\ UNCHANGED <<stderr, exitCode>>
    /\ UNCHANGED <<hostVars, consumed, locals, fsVars, fixed, history>>

WriteReply ==
    /\ pc = "reply"
    /\ \/ /\ stderr' = stderr \o ReplyBytes(input, value)
          /\ Call("reply")
          /\ pc' = AfterReply(input.method)
          /\ UNCHANGED <<stdout, exitCode>>
       \/ \* standard error is closed or broken: the panic message is lost too
          /\ pc' = "panicked"
          /\ exitCode' = "101"
          /\ UNCHANGED <<stdout, stderr, events>>
    /\ UNCHANGED <<hostVars, consumed, locals, fsVars, fixed, history>>

(***************************************************************************)
(* The host spawns the generator again on the filesystem the last          *)
(* process left.                                                           *)
(***************************************************************************)
Respawn ==
    /\ pc = "terminated"
    /\ run < MaxRuns
    /\ run' = run + 1
    /\ prev' = [status |-> pc, dmmf |-> dmmf, dirs |-> dirs, files |-> files,
                 written |-> written]
    /\ pc' = "start"
    /\ stdinPipe' = <<>>
    /\ stdinOpen' = TRUE
    /\ sent' = <<>>
    /\ lost' = <<>>
    /\ decoded' = <<>>
    /\ content' = EmptyContent
    /\ input' = NoInput
    /\ value' = NoValue
    /\ dmmf' = NoDmmf
    /\ file' = NoFile
    /\ genArgs' = NoArgs
    /\ generated_str' = <<>>
    /\ written' = <<>>
    /\ stdout' = <<>>
    /\ stderr' = <<>>
    /\ exitCode' = "running"
    /\ events' = <<>>
    /\ UNCHANGED <<fsVars, fixed>>

Next ==
    \/ HostWrite
    \/ HostClose
    \/ SelectCli
    \/ SelectExit
    \/ EnterLoop
    \/ ReadLine
    \/ ReadEof
    \/ Decode
    \/ GetManifest
    \/ DeserializeDmmf
    \/ UnknownMethod
    \/ ParseSchema
    \/ CreateParentDirs
    \/ CreateFile
    \/ ValidateNames
    \/ Emit
    \/ WriteHeader
    \/ WriteBody
    \/ Rustfmt
    \/ WriteReply

Spec == Init /\ [][Next]_vars

(***************************************************************************)
(* Generation run again: the host spawns the generator a second time on    *)
(* the tree the first process left, with requests that can succeed.        *)
(***************************************************************************)
RerunLines ==
    { l \in Envelopes : l.id = 1 /\ l.params.kind = "dmmf" /\ l.params.datamodel = "dm_ok" }

HostWriteRerun == HostWriteFrom(RerunLines)

InitRerun == Init /\ args = <<>> /\ envMarker

NextRerun ==
    \/ HostWriteRerun
    \/ EnterLoop
    \/ ReadLine
    \/ Decode
    \/ GetManifest
    \/ DeserializeDmmf
    \/ ParseSchema
    \/ CreateParentDirs
    \/ CreateFile
    \/ ValidateNames
    \/ Emit
    \/ WriteHeader
    \/ WriteBody
    \/ Rustfmt
    \/ WriteReply
    \/ Respawn

SpecRerun == InitRerun /\ [][NextRerun]_vars

(***************************************************************************)
(* The session the host is meant to drive: some getManifest requests,      *)
(* then one well-formed generate request, the input kept open, and         *)
(* nothing more written while the host waits for the reply to generate.    *)
(* The process is one thread running run_generator: whenever its next      *)
(* statement can be executed it is executed (a read blocks only while the  *)
(* pipe is empty and open), which is weak fairness of its steps.           *)
(***************************************************************************)
LiveLines ==
    { l \in Envelopes : \/ l.method = "getManifest"
                        \/ l.method = "generate" /\ l.params \in GoodDmmf }

HostWriteLive ==
    /\ \A i \in 1..Len(sent) : sent[i].method # "generate"
    /\ HostWriteFrom(LiveLines)

InitLive == Init /\ args = <<>> /\ envMarker

ProcessStep ==
    \/ EnterLoop
    \/ ReadLine
    \/ Decode
    \/ GetManifest
    \/ DeserializeDmmf
    \/ ParseSchema
    \/ CreateParentDirs
    \/ CreateFile
    \/ ValidateNames
    \/ Emit
    \/ WriteHeader
    \/ WriteBody
    \/ Rustfmt
    \/ WriteReply

NextLive ==
    \/ HostWriteLive
    \/ ProcessStep

SpecLive == InitLive /\ [][NextLive]_vars /\ WF_vars(ProcessStep)

(***************************************************************************)
(* What the claims read off a state.                                       *)
(***************************************************************************)
IsJson(tok) == tok.kind = "json"
\* the replies on standard error, in the order written
Replies == SelectSeq(stderr, IsJson)
\* the diagnostics on standard error
IsDiag(tok) == tok.kind = "diag"
Diags == SelectSeq(stderr, IsDiag)
IsRead(e) == e = "read_line"
\* the reads of standard input the process made
Reads == SelectSeq(events, IsRead)
LastDecoded == decoded[Len(decoded)]
Called(name) == \E i \in 1..Len(events) : events[i] = name
TreeUntouched == dirs = prev.dirs /\ files = prev.files

(***************************************************************************)
(* C1.  Every getManifest request the loop has decoded and answered has a  *)
(* reply with jsonrpc "2.0", the request's id, and a result whose          *)
(* prettyName and defaultOutput are the generator's name and default       *)
(* output, whatever the id, the params and the requests before it; and     *)
(* when the loop is back at the read, every decoded request has its reply. *)
(***************************************************************************)
C1_ManifestReply ==
    /\ \A i \in 1..Len(Replies) :
          decoded[i].method = "getManifest" =>
             Replies[i].doc =
                [jsonrpc |-> "2.0", id |-> decoded[i].id,
                 result |-> [kind |-> "manifest",
                             defaultOutput |-> generator.default_output,
                             prettyName |-> generator.name]]
    /\ Len(Replies) <= Len(decoded)
    /\ pc = "awaiting" => Len(Replies) = Len(decoded)

\* a second getManifest, with id 2 and non-null params, answered after a first
C1_Witness ==
    /\ Len(Replies) = 2
    /\ decoded[1].method = "getManifest" /\ decoded[1].id = 1
    /\ decoded[2].method = "getManifest" /\ decoded[2].id = 2
    /\ decoded[2].params # NullParams
    /\ Replies[2].doc.id = 2

(***************************************************************************)
(* C2.  A request whose method is neither getManifest nor generate ends    *)
(* the process abnormally: no reply is written for it and no further line  *)
(* is read.                                                                *)
(***************************************************************************)
C2_UnknownMethodAborts ==
    (decoded # <<>> /\ LastDecoded.method \notin {"getManifest", "generate"}) =>
        /\ pc \in {"dispatch", "panicked"}
        /\ Len(Replies) = Len(decoded) - 1
        /\ Len(Reads) = Len(decoded)
        /\ pc = "panicked" => exitCode = "101"

\* the process died on a shutdown request with another line waiting in the pipe
C2_Witness ==
    /\ pc = "panicked"
    /\ decoded # <<>> /\ LastDecoded.method = "shutdown"
    /\ stdinPipe # <<>>

(***************************************************************************)
(* C3.  Once the reply to a generate request is written the loop is        *)
(* terminated and no read of standard input follows, even with lines       *)
(* waiting in the pipe: the reply is the last thing the process did.       *)
(***************************************************************************)
C3_NoReadAfterGenerate ==
    \A i \in 1..Len(Replies) :
        decoded[i].method = "generate" =>
            /\ pc = "terminated"
            /\ i = Len(decoded)
            /\ Len(Reads) = i
            /\ events[Len(events)] = "reply"

\* terminated after a generate while the host has a line queued
C3_Witness ==
    /\ pc = "terminated"
    /\ stdinPipe # <<>>
    /\ LastDecoded.method = "generate"

\* the file a completed generation wrote, and the same after the formatter
C4_Expected ==
    <<"// Code generated by ", generator.name, ". DO NOT EDIT\n\n",
      "unformatted code of", dmmf.datamodel, dmmf.config>>
C4_Formatted ==
    <<"// Code generated by ", generator.name, ". DO NOT EDIT\n\n",
      "formatted code of", dmmf.datamodel, dmmf.config>>

C5_BadParamsAbortEarly ==
    (decoded # <<>> /\ LastDecoded.method = "generate" /\ LastDecoded.params.kind # "dmmf") =>
        /\ pc \in {"dispatch", "panicked"}
        /\ TreeUntouched
        /\ ~file.open
        /\ \A i \in 1..Len(events) : events[i] \in {"read_line", "reply"}
        /\ Len(Replies) = Len(decoded) - 1

\* the process died on a generate request without generator.output, after
\* answering a getManifest
C5_Witness ==
    /\ pc = "panicked"
    /\ Len(decoded) = 2
    /\ LastDecoded.method = "generate" /\ LastDecoded.params = PartialParams
    /\ Len(Replies) = 1

(***************************************************************************)
(* C6.  (the claim as stated) Once the process has aborted, the output     *)
(* path does not hold a file this process created or truncated that lacks  *)
(* the complete header and emitted text.                                   *)
(***************************************************************************)
C6_NoPartialFileOnFailure ==
    (pc = "panicked" /\ file.open) =>
        files[file.path] \in {C4_Expected, C4_Formatted}

(***************************************************************************)
(* C7.  In the session loop (no arguments, marker set) nothing is ever     *)
(* written to standard output, each reply on standard error is followed    *)
(* by its newline, and while the process has not aborted standard error    *)
(* holds the replies written so far, one line each, and nothing else.      *)
(***************************************************************************)
C7_RepliesOnStderrOnly ==
    (args = <<>> /\ envMarker) =>
        /\ stdout = <<>>
        /\ \A i \in 1..Len(stderr) :
              stderr[i].kind = "json" => (i < Len(stderr) /\ stderr[i + 1].kind = "nl")
        /\ Len(Replies) = Len(SelectSeq(events, LAMBDA e : e = "reply"))
        /\ pc # "panicked" =>
              /\ Len(stderr) = 2 * Len(Replies)
              /\ \A i \in 1..Len(Replies) :
                    stderr[2 * i - 1].kind = "json" /\ stderr[2 * i].kind = "nl"

\* two replies written, the loop over
C7_Witness ==
    /\ pc = "terminated"
    /\ Len(stderr) = 4
    /\ Len(Replies) = 2

(***************************************************************************)
(* C8.  With no arguments and the marker variable absent, the process      *)
(* prints the instructional message on standard output and exits with      *)
(* status 1: it has read nothing, replied nothing, and left the tree as    *)
(* it found it.                                                            *)
(***************************************************************************)
C8_ExitWithoutMarker ==
    (args = <<>> /\ ~envMarker /\ pc # "start") =>
        /\ pc = "exited"
        /\ exitCode = "1"
        /\ stdout = <<"This command is only meant to be invoked internally. Please specify a command to run.", "\n">>
        /\ stderr = <<>>
        /\ events = <<>>
        /\ decoded = <<>>
        /\ stdinPipe = sent
        /\ TreeUntouched

\* exited with status 1 while the host had written a request
C8_Witness ==
    /\ pc = "exited"
    /\ exitCode = "1"
    /\ stdinPipe # <<>>

(***************************************************************************)
(* C9.  A generate request whose body write completed is answered with     *)
(* result null and its own id whether the formatter succeeded or failed:   *)
(* the formatter call is the last thing before the reply, the loop never   *)
(* ends normally without the reply, and after the body write the only      *)
(* abort left is a failing write of the reply itself.                      *)
(***************************************************************************)
C9_NullReplyAfterFormatter ==
    /\ \A i \in 1..Len(Replies) :
          decoded[i].method = "generate" =>
             /\ Replies[i].doc =
                   [jsonrpc |-> "2.0", id |-> decoded[i].id,
                    result |-> [kind |-> "null", defaultOutput |-> "", prettyName |-> ""]]
             /\ Len(events) >= 2
             /\ events[Len(events)] = "reply"
             /\ events[Len(events) - 1] \in {"rustfmt ok", "rustfmt failed"}
    /\ Called("write body") =>
          \/ pc \in {"rustfmt", "reply"}
          \/ pc = "terminated" /\ Len(Replies) = Len(decoded)
          \/ /\ pc = "panicked"
             /\ Diags = <<>>
             /\ events[Len(events)] \in {"rustfmt ok", "rustfmt failed"}

\* the formatter failed and the reply, with id 2, was written all the same
C9_Witness ==
    /\ pc = "terminated"
    /\ Called("rustfmt failed")
    /\ LastDecoded.id = 2
    /\ Replies[Len(Replies)].doc.id = 2

\* this process got the request of the successful process before it
C10_Repeats == prev.status = "terminated" /\ dmmf = prev.dmmf

(***************************************************************************)
(* C10.  The ancestors of the output path exist before the file is         *)
(* opened.  A process that repeats the request of the successful process   *)
(* before it, on the tree that one left, does not fail on the directories  *)
(* or the file being there, creates nothing new, and writes through its    *)
(* handle the same content, leaving every other file alone.                *)
(***************************************************************************)
C10_RerunIdempotent ==
    /\ (pc = "file_create" \/ file.open) => Ancestors(dmmf.output) \subseteq dirs
    /\ C10_Repeats =>
          /\ pc = "panicked" =>
                \A i \in 1..Len(Diags) :
                    Diags[i].err \notin {"AlreadyExists", "IsADirectory", "NotADirectory", "NotFound"}
          /\ dirs = prev.dirs
          /\ DOMAIN files = DOMAIN prev.files
          /\ \A p \in DOMAIN files : p # dmmf.output => files[p] = prev.files[p]
          /\ pc \in {"rustfmt", "reply", "terminated"} => written = prev.written
          /\ pc = "rustfmt" => files[dmmf.output] = prev.written

\* the second process finished the same request, whose path has two ancestors
C10_Witness ==
    /\ C10_Repeats
    /\ pc = "terminated"
    /\ dmmf.output = DeepPath
    /\ written # <<>>

\* the last read gave no request: it is about to fail the decode, or the
\* abort has happened already
C11_FailedRead ==
    \/ pc = "decode" /\ ~DecodesRequest(content)
    \/ pc # "decode" /\ Len(Reads) > Len(decoded)

(***************************************************************************)
(* C11: a read at awaiting-request that yields no line (end of input), a   *)
(* line that is not text, or a line that does not decode as a request      *)
(* envelope ends the process abnormally: the read is the last step before  *)
(* the decode and the abort, no reply is written for it, the read is not   *)
(* made again, and the filesystem is as the process found it.              *)
(***************************************************************************)
C11_BadReadAborts ==
    C11_FailedRead =>
        /\ pc \in {"decode", "panicked"}
        /\ pc = "panicked" => exitCode = "101"
        /\ Len(Reads) = Len(decoded) + 1
        /\ events[Len(events)] = "read_line"
        /\ Len(Replies) = Len(decoded)
        /\ \A i \in 1..Len(decoded) : decoded[i].method = "getManifest"
        /\ TreeUntouched
        /\ ~file.open

\* end of input met after one request was answered
C11_Witness ==
    /\ pc = "panicked"
    /\ ~stdinOpen
    /\ content = EmptyContent
    /\ Len(Reads) = 2
    /\ Len(Replies) = 1
    /\ Len(Diags) = 1
    /\ Diags[1].msg = "called Result::unwrap() on an Err value"

(***************************************************************************)
(* C12: the name validation runs before the emission.  Once it has         *)
(* rejected the names the process has ended abnormally with the emission   *)
(* function never called, no byte written through the output file handle   *)
(* (the file it opened is empty), the formatter never called and no reply  *)
(* written for the generate request.                                       *)
(***************************************************************************)
C12_ValidateBeforeEmit ==
    (Called("validate_names") /\ ~validate_names(genArgs)) =>
        /\ pc = "panicked"
        /\ exitCode = "101"
        /\ events[Len(events)] = "validate_names"
        /\ ~Called("generate_fn")
        /\ ~Called("write header")
        /\ ~Called("write body")
        /\ ~Called("rustfmt ok")
        /\ ~Called("rustfmt failed")
        /\ generated_str = <<>>
        /\ written = <<>>
        /\ file.open
        /\ files[file.path] = <<>>
        /\ LastDecoded.method = "generate"
        /\ Len(Replies) = Len(decoded) - 1

\* the names are rejected after the output file was opened over an earlier one
C12_Witness ==
    /\ pc = "panicked"
    /\ Called("validate_names")
    /\ genArgs.built
    /\ ~validate_names(genArgs)
    /\ DeepPath \in DOMAIN prev.files
    /\ file.path = DeepPath
    /\ Len(Replies) = 1

IsReadOrReply(e) == e \in {"read_line", "reply"}
\* the reads made and the replies written, in the order they happened
Exchange == SelectSeq(events, IsReadOrReply)

(***************************************************************************)
(* C13: one request in, one reply out.  In every reachable state the       *)
(* number of replies written equals the number of reads made or is one     *)
(* less; reads and replies alternate, so the reply to the k-th request is  *)
(* written before the (k+1)-th read; and the ids of the replies are the    *)
(* ids of the requests answered, in order.                                 *)
(***************************************************************************)
C13_OneInOneOut ==
    /\ Len(Replies) \in {Len(Reads), Len(Reads) - 1}
    /\ \A i \in 1..Len(Exchange) :
        Exchange[i] = IF i % 2 = 1 THEN "read_line" ELSE "reply"
    /\ Len(Replies) <= Len(decoded)
    /\ Len(decoded) <= Len(Reads)
    /\ \A i \in 1..Len(Replies) : Replies[i].doc.id = decoded[i].id

\* two exchanges with different ids, the process at its third read
C13_Witness ==
    /\ Len(Replies) = 2
    /\ Replies[1].doc.id = 2
    /\ Replies[2].doc.id = 1
    /\ Exchange = <<"read_line", "reply", "read_line", "reply">>
    /\ pc = "awaiting"

(***************************************************************************)
(* C14: every iteration takes exactly one line from standard input.        *)
(* Whatever the interleaving of the host's writes with the loop's reads,   *)
(* no line is dropped: the lines gone from the pipe are as many as the     *)
(* reads that returned a line, and the requests decoded are the lines the  *)
(* host wrote, in the order it wrote them.                                 *)
(***************************************************************************)
C14_NoLineDropped ==
    /\ lost = <<>>
    /\ Len(sent) - Len(stdinPipe) <= Len(Reads)
    /\ Len(decoded) <= Len(sent)
    /\ \A i \in 1..Len(decoded) : decoded[i] = DecodeRequest(sent[i])

(***************************************************************************)
(* C15: with a non-empty argument list, whether or not the invocation      *)
(* marker is set, control goes to the command-line mode and returns        *)
(* without entering the loop: the only call made is the command-line       *)
(* entry point, no line is taken from standard input, no reply and no      *)
(* instructional message is written, and the generation pipeline never     *)
(* runs.                                                                   *)
(***************************************************************************)
C15_CliModeSkipsLoop ==
    (Len(args) > 0 /\ pc # "start") =>
        /\ pc = "returned"
        /\ events = <<"prisma_cli::main">>
        /\ stdinPipe = sent
        /\ lost = <<>>
        /\ decoded = <<>>
        /\ stderr = <<>>
        /\ stdout = <<>>
        /\ exitCode = "running"
        /\ dmmf = NoDmmf
        /\ genArgs = NoArgs
        /\ ~file.open
        /\ TreeUntouched

\* arguments given with the marker set and a request already in the pipe
C15_Witness ==
    /\ pc = "returned"
    /\ Len(args) > 0
    /\ envMarker
    /\ Len(stdinPipe) = 2
    /\ stdinPipe[1].method = "generate"

\* every request decoded so far is a getManifest request
OnlyManifests ==
    /\ decoded # <<>>
    /\ \A i \in 1..Len(decoded) : decoded[i].method = "getManifest"

(***************************************************************************)
(* C16: getManifest has no side effect beyond its reply.  While the only   *)
(* requests decoded are getManifest requests the filesystem is as the      *)
(* process found it, no output file is open, nothing of the generation     *)
(* pipeline (compiler, emission, formatter) has been called, the loop has  *)
(* not terminated and is back at its read once the reply is written, and   *)
(* all the replies carry the same result, the one read off the generator   *)
(* identity.                                                               *)
(***************************************************************************)
C16_ManifestHasNoSideEffect ==
    OnlyManifests =>
        /\ TreeUntouched
        /\ file = NoFile
        /\ dmmf = NoDmmf
        /\ genArgs = NoArgs
        /\ generated_str = <<>>
        /\ written = <<>>
        /\ stdout = <<>>
        /\ \A i \in 1..Len(events) : events[i] \in {"read_line", "reply"}
        /\ pc \in {"dispatch", "reply", "awaiting", "decode", "panicked"}
        /\ (Len(Replies) = Len(decoded) /\ pc # "panicked") => pc \in {"awaiting", "decode"}
        /\ \A i, j \in 1..Len(Replies) : Replies[i].doc.result = Replies[j].doc.result
        /\ \A i \in 1..Len(Replies) :
              /\ Replies[i].doc.result.prettyName = generator.name
              /\ Replies[i].doc.result.defaultOutput = generator.default_output

\* two getManifest requests with different ids and params answered on an
\* empty tree, the loop back at its read
C16_Witness ==
    /\ OnlyManifests
    /\ Len(decoded) = 2
    /\ decoded[1].id # decoded[2].id
    /\ decoded[1].params # decoded[2].params
    /\ Len(Replies) = 2
    /\ pc = "awaiting"
    /\ dirs = {}

(***************************************************************************)
(* C18: the compilation of the datamodel is the first step of the          *)
(* pipeline.  Once it has failed the process has ended abnormally with no  *)
(* directory made, no file created or truncated, the generation arguments  *)
(* never built, the emission function never called and no reply written    *)
(* for the generate request.                                               *)
(***************************************************************************)
C18_CompileFirst ==
    (Called("parse_schema") /\ ~parse_schema(dmmf.datamodel)) =>
        /\ pc = "panicked"
        /\ exitCode = "101"
        /\ Diags[Len(Diags)].msg = "Failed to parse datamodel"
        /\ events[Len(events)] = "parse_schema"
        /\ \A i \in 1..Len(events) : events[i] \in {"read_line", "reply", "parse_schema"}
        /\ TreeUntouched
        /\ file = NoFile
        /\ genArgs = NoArgs
        /\ generated_str = <<>>
        /\ written = <<>>
        /\ LastDecoded.method = "generate"
        /\ Len(Replies) = Len(decoded) - 1

\* a datamodel that does not compile, aimed at an earlier output file, after
\* one getManifest exchange
C18_Witness ==
    /\ pc = "panicked"
    /\ Called("parse_schema")
    /\ ~parse_schema(dmmf.datamodel)
    /\ dmmf.output = DeepPath
    /\ DeepPath \in DOMAIN files
    /\ Len(Replies) = 1

IsGenerateReply(tok) == tok.kind = "json" /\ tok.doc.result.kind = "null"
\* the replies to generate requests: those whose result is null
GenerateReplies == SelectSeq(stderr, IsGenerateReply)
\* the host has written some getManifest requests and then a well-formed
\* generate request
GenerateSent ==
    \E n \in 1..Len(sent) :
        /\ sent[n].method = "generate"
        /\ sent[n].params \in GoodDmmf
        /\ \A i \in 1..(n - 1) : sent[i].method = "getManifest"

(***************************************************************************)
(* C17: termination.  Once the host has sent, after finitely many          *)
(* getManifest requests, a well-formed generate request, the loop          *)
(* eventually is terminated with exactly one generate reply written,       *)
(* unless a collaborator step fails (the process then has ended            *)
(* abnormally); and in every state the loop is terminated only after a     *)
(* generate request, never while the host has sent getManifest requests    *)
(* only.                                                                   *)
(***************************************************************************)
C17_GenerateTerminates ==
    /\ [](pc = "terminated" =>
            /\ LastDecoded.method = "generate"
            /\ Len(GenerateReplies) = 1)
    /\ []((\A i \in 1..Len(sent) : sent[i].method = "getManifest") =>
            pc \notin {"terminated", "returned", "exited"})
    /\ GenerateSent ~>
         \/ pc = "terminated" /\ Len(GenerateReplies) = 1
         \/ pc = "panicked"

====
